---- MODULE Spec2Model ----
(***************************************************************************)
(* Model of the Minesweeper game engine of X-Assignments/X-Minesweeper.py  *)
(* (class Minesweeper, lines 7-93): mine placement, adjacency counts, the  *)
(* recursive reveal, flag toggling and the win check.                      *)
(*                                                                         *)
(* Encoding.  A grid is a function from cells <<r, c>> (0-indexed) to the  *)
(* cell's value.  board holds integers: the adjacency count, or M for the  *)
(* Python value 'M'.  visible_board holds the Python strings ' ', 'F',     *)
(* 'M' and str(count).                                                     *)
(***************************************************************************)
EXTENDS Integers, Sequences, FiniteSets

VARIABLES rows, cols, num_mines, board, visible_board, game_over, win,
          mines_placed, pc, stack, log, call

vars == <<rows, cols, num_mines, board, visible_board, game_over, win,
          mines_placed, pc, stack, log, call>>

\* The reveal call in progress, where a specification follows the recursion of
\* reveal step by step (elsewhere the three stay empty): stack holds one frame
\* [r, c, i] for each activation of reveal that is in its for loop, i being the
\* position of the neighbour it looks at next; log lists the cells the call has
\* revealed so far; call holds the arguments of the call and the game state it
\* started from.
recursion == <<stack, log, call>>

\* Bounds of the model.
MaxRows == 3
MaxCols == 3
MaxCells == 6

\* The value 'M' of a board cell (the board is an integer grid here).
M == -1

Cells == (0 .. rows - 1) \X (0 .. cols - 1)

\* str() giving the digit of the count after n.
str_off_by_one(n) ==
    CASE n = 0 -> "1" [] n = 1 -> "2" [] n = 2 -> "3" [] n = 3 -> "4"
      [] n = 4 -> "5" [] n = 5 -> "6" [] n = 6 -> "7" [] n = 7 -> "8"
      [] n = 8 -> "9"

\* str() of an adjacency count.
str(n) ==
    CASE n = 0 -> "0" [] n = 1 -> "1" [] n = 2 -> "2" [] n = 3 -> "3"
      [] n = 4 -> "4" [] n = 5 -> "5" [] n = 6 -> "6" [] n = 7 -> "7"
      [] n = 8 -> "8"

\* _get_neighbors leaving out the diagonal neighbours.
_get_neighbors_orthogonal(r, c) ==
    LET cand == <<(<<r - 1, c>>), (<<r, c - 1>>), (<<r, c + 1>>), (<<r + 1, c>>)>>
        keep(p) == /\ 0 <= p[1] /\ p[1] < rows
                   /\ 0 <= p[2] /\ p[2] < cols
    IN  SelectSeq(cand, keep)

\* The list _get_neighbors returns, in the order of its two nested loops.
_get_neighbors(r, c) ==
    LET cand == [k \in 1 .. 9 |-> <<r - 1 + ((k - 1) \div 3), c - 1 + ((k - 1) % 3)>>]
        keep(p) == /\ 0 <= p[1] /\ p[1] < rows
                   /\ 0 <= p[2] /\ p[2] < cols
                   /\ p # <<r, c>>
    IN  SelectSeq(cand, keep)

\* The loops of _calculate_numbers from linear position k on, updating b in place.
RECURSIVE calculate_loop(_, _)
calculate_loop(b, k) ==
    IF k >= rows * cols THEN b
    ELSE LET r == k \div cols
             c == k % cols
             nb == _get_neighbors(r, c)
             count == Cardinality({i \in 1 .. Len(nb) : b[nb[i]] = M})
         IN  IF b[<<r, c>>] = M
             THEN calculate_loop(b, k + 1)
             ELSE calculate_loop([b EXCEPT ![<<r, c>>] = count], k + 1)

\* _calculate_numbers leaving every count at 0.
_calculate_numbers_skipped(b) == b

_calculate_numbers(b) == calculate_loop(b, 0)

\* The mutable game state reveal, flag and check_win work on.
Cur == [visible_board |-> visible_board, game_over |-> game_over, win |-> win]

\* check_win asking for no hidden cell at all.
check_win_none_hidden(s) ==
    LET hidden_cells == Cardinality({p \in Cells : s.visible_board[p] = " "})
    IN  IF hidden_cells = 0
        THEN [s EXCEPT !.win = TRUE, !.game_over = TRUE]
        ELSE s

check_win(s) ==
    LET hidden_cells == Cardinality({p \in Cells : s.visible_board[p] = " "})
    IN  IF hidden_cells = num_mines
        THEN [s EXCEPT !.win = TRUE, !.game_over = TRUE]
        ELSE s

RECURSIVE reveal(_, _, _)
RECURSIVE reveal_neighbors(_, _, _)

\* reveal_returns_early letting a flagged cell through.
reveal_returns_early_unless_flagged(s, r, c) ==
    s.game_over \/ s.visible_board[<<r, c>>] \notin {" ", "F"}

\* The condition of line 52, under which reveal returns at once.
reveal_returns_early(s, r, c) ==
    s.game_over \/ s.visible_board[<<r, c>>] # " "

\* reveal_mine without the assignment of line 57.
reveal_mine_unmarked(s, r, c) ==
    [s EXCEPT !.game_over = TRUE]

\* reveal_mine showing every mine of the board once one is hit.
reveal_mine_showing_all(s, r, c) ==
    [s EXCEPT !.game_over = TRUE,
              !.visible_board = [p \in Cells |-> IF board[p] = M THEN "M" ELSE @[p]]]

\* The assignments of the mine branch of reveal (lines 56-57).
reveal_mine(s, r, c) ==
    [s EXCEPT !.game_over = TRUE, !.visible_board[<<r, c>>] = "M"]

\* The for loop of reveal (lines 63-65) from position i of the neighbour list on.
reveal_neighbors(s, nb, i) ==
    IF i > Len(nb) THEN s
    ELSE reveal_neighbors(IF s.visible_board[nb[i]] = " "
                          THEN reveal(s, nb[i][1], nb[i][2])
                          ELSE s,
                          nb, i + 1)

reveal(s, r, c) ==
    IF reveal_returns_early(s, r, c) THEN s
    ELSE IF board[<<r, c>>] = M
    THEN reveal_mine(s, r, c)
    ELSE LET s1 == [s EXCEPT !.visible_board[<<r, c>>] = str(board[<<r, c>>])]
             s2 == IF board[<<r, c>>] = 0
                   THEN reveal_neighbors(s1, _get_neighbors(r, c), 1)
                   ELSE s1
         IN  check_win(s2)

\* flag_returns_early without the game_over test.
flag_returns_early_ignoring_outcome(s, r, c) ==
    s.visible_board[<<r, c>>] \notin {" ", "F"}

\* The condition of line 71, under which flag returns at once.
flag_returns_early(s, r, c) ==
    s.game_over \/ s.visible_board[<<r, c>>] \notin {" ", "F"}

\* flag without its elif branch: it sets a flag and never clears one.
flag_set_only(s, r, c) ==
    IF flag_returns_early(s, r, c) THEN s
    ELSE IF s.visible_board[<<r, c>>] = " "
    THEN [s EXCEPT !.visible_board[<<r, c>>] = "F"]
    ELSE s

\* flag toggling every cell that is not Flagged to Flagged, Revealed or not.
flag_any_cell(s, r, c) ==
    IF s.game_over THEN s
    ELSE IF s.visible_board[<<r, c>>] = "F"
    THEN [s EXCEPT !.visible_board[<<r, c>>] = " "]
    ELSE [s EXCEPT !.visible_board[<<r, c>>] = "F"]

flag(s, r, c) ==
    IF flag_returns_early(s, r, c) THEN s
    ELSE IF s.visible_board[<<r, c>>] = " "
    THEN [s EXCEPT !.visible_board[<<r, c>>] = "F"]
    ELSE IF s.visible_board[<<r, c>>] = "F"
    THEN [s EXCEPT !.visible_board[<<r, c>>] = " "]
    ELSE s

----
\* Construction: the assignments of __init__ before _place_mines is called.
Blank ==
    /\ board = [p \in Cells |-> 0]
    /\ visible_board = [p \in Cells |-> " "]
    /\ game_over = FALSE
    /\ win = FALSE
    /\ mines_placed = 0
    /\ pc = "place_mines"
    /\ stack = <<>>
    /\ log = <<>>
    /\ call = <<>>

Init ==
    /\ rows \in 1 .. MaxRows
    /\ cols \in 1 .. MaxCols
    /\ rows * cols <= MaxCells
    /\ num_mines \in 0 .. rows * cols - 1
    /\ Blank

\* PlaceMinesStep without the test of line 25.
PlaceMinesStepUnchecked ==
    /\ pc = "place_mines"
    /\ mines_placed < num_mines
    /\ \E r \in 0 .. rows - 1, c \in 0 .. cols - 1 :
         /\ board' = [board EXCEPT ![<<r, c>>] = M]
         /\ mines_placed' = mines_placed + 1
    /\ UNCHANGED <<rows, cols, num_mines, visible_board, game_over, win, pc>>
    /\ UNCHANGED recursion

\* One iteration of the while loop of _place_mines, whatever cell random picks.
PlaceMinesStep ==
    /\ pc = "place_mines"
    /\ mines_placed < num_mines
    /\ \E r \in 0 .. rows - 1, c \in 0 .. cols - 1 :
         IF board[<<r, c>>] # M
         THEN /\ board' = [board EXCEPT ![<<r, c>>] = M]
              /\ mines_placed' = mines_placed + 1
         ELSE UNCHANGED <<board, mines_placed>>
    /\ UNCHANGED <<rows, cols, num_mines, visible_board, game_over, win, pc>>
    /\ UNCHANGED recursion

\* The while loop ends, _calculate_numbers runs and __init__ returns.
CalculateNumbers ==
    /\ pc = "place_mines"
    /\ ~(mines_placed < num_mines)
    /\ board' = _calculate_numbers(board)
    /\ pc' = "play"
    /\ UNCHANGED <<rows, cols, num_mines, visible_board, game_over, win, mines_placed>>
    /\ UNCHANGED recursion

SetGame(s) ==
    /\ visible_board' = s.visible_board
    /\ game_over' = s.game_over
    /\ win' = s.win
    /\ UNCHANGED <<rows, cols, num_mines, board, mines_placed, pc>>
    /\ UNCHANGED recursion

CallReveal(r, c) ==
    /\ pc = "play"
    /\ SetGame(reveal(Cur, r, c))

CallFlag(r, c) ==
    /\ pc = "play"
    /\ SetGame(flag(Cur, r, c))

Reveal == \E r \in 0 .. rows - 1, c \in 0 .. cols - 1 : CallReveal(r, c)

Flag == \E r \in 0 .. rows - 1, c \in 0 .. cols - 1 : CallFlag(r, c)

Next == PlaceMinesStep \/ CalculateNumbers \/ Reveal \/ Flag

Spec == Init /\ [][Next]_vars

----
\* Vocabulary of the properties.
Hazard(p) == board[p] = M

Hidden(vb, p) == vb[p] = " "

Flagged(vb, p) == vb[p] = "F"

Revealed(vb, p) == vb[p] \notin {" ", "F"}

AllSafeRevealed(vb) == \A p \in Cells : ~Hazard(p) => Revealed(vb, p)

Outcome(go, w) == IF ~go THEN "InProgress" ELSE IF w THEN "Won" ELSE "Lost"

Abs(n) == IF n < 0 THEN -n ELSE n

\* p and q are distinct cells that touch by a side or a corner.
Adjacent(p, q) == p # q /\ Abs(p[1] - q[1]) <= 1 /\ Abs(p[2] - q[2]) <= 1

----
\* C1: whenever the game is Won, every non-hazard cell is Revealed.
C1_WonImpliesAllSafeRevealed == win => AllSafeRevealed(visible_board)

\* C2: a reveal of a Hidden non-hazard cell from an InProgress state that leaves
\* every non-hazard cell Revealed yields Won, whatever cells are Flagged.
C2_LastSafeRevealWins ==
    [][\A r \in 0 .. rows - 1, c \in 0 .. cols - 1 :
         ( /\ CallReveal(r, c)
           /\ ~game_over
           /\ Hidden(visible_board, <<r, c>>)
           /\ ~Hazard(<<r, c>>)
           /\ AllSafeRevealed(visible_board') )
         => Outcome(game_over', win') = "Won"]_vars

\* C3: the outcome is Lost exactly when some hazard cell is Revealed, showing the
\* mine marker.
C3_LostIffHazardRevealed ==
    (Outcome(game_over, win) = "Lost")
        <=> (\E p \in Cells : Hazard(p) /\ visible_board[p] = "M")

\* A lost game: a hazard shows the mine marker.
C3_Witness ==
    /\ pc = "play"
    /\ game_over /\ ~win
    /\ \E p \in Cells : Hazard(p) /\ visible_board[p] = "M"

\* C4: Won and Lost are absorbing: from a terminal state no step changes the
\* visibility grid, the hazard layout or the outcome, and the outcome only
\* ever moves from InProgress to Won or from InProgress to Lost.
C4_TerminalAbsorbing ==
    [][ /\ game_over => UNCHANGED <<visible_board, board, game_over, win>>
        /\ Outcome(game_over', win') # Outcome(game_over, win)
             => /\ Outcome(game_over, win) = "InProgress"
                /\ Outcome(game_over', win') \in {"Won", "Lost"} ]_vars

\* A finished game with cells left that a reveal or a flag call could act on:
\* one still Hidden and one Flagged.
C4_Witness ==
    /\ pc = "play"
    /\ game_over
    /\ \E p \in Cells : Hidden(visible_board, p)
    /\ \E p \in Cells : Flagged(visible_board, p)

\* The cells reachable from the cells of S by 8-neighbour steps through cells
\* that are Hidden now, leaving only cells of adjacency count 0.
RECURSIVE CascadeClosure(_)
CascadeClosure(S) ==
    LET grown == S \cup {q \in Cells :
                           /\ Hidden(visible_board, q)
                           /\ \E p \in S : board[p] = 0 /\ Adjacent(p, q)}
    IN  IF grown = S THEN S ELSE CascadeClosure(grown)

\* C5: a reveal of a Hidden zero-adjacency cell from an InProgress state reveals
\* exactly the cells its cascade region holds and changes no other cell.
C5_CascadeRevealsRegion ==
    [][\A r \in 0 .. rows - 1, c \in 0 .. cols - 1 :
         ( /\ CallReveal(r, c)
           /\ ~game_over
           /\ Hidden(visible_board, <<r, c>>)
           /\ board[<<r, c>>] = 0 )
         => \A p \in Cells :
              IF p \in CascadeClosure({<<r, c>>})
              THEN Revealed(visible_board', p)
              ELSE visible_board'[p] = visible_board[p]]_vars

\* C6: a reveal of a Hidden hazard cell from an InProgress state marks that cell
\* with the mine value, makes the outcome Lost and changes no other cell.
C6_HazardRevealLoses ==
    [][\A r \in 0 .. rows - 1, c \in 0 .. cols - 1 :
         ( /\ CallReveal(r, c)
           /\ ~game_over
           /\ Hidden(visible_board, <<r, c>>)
           /\ Hazard(<<r, c>>) )
         => /\ visible_board' = [visible_board EXCEPT ![<<r, c>>] = "M"]
            /\ Outcome(game_over', win') = "Lost"]_vars

\* A game lost on one hazard while another hazard and a zero-adjacency cell are
\* still Hidden and a safe cell is Revealed.
C6_Witness ==
    /\ pc = "play"
    /\ Outcome(game_over, win) = "Lost"
    /\ Cardinality({p \in Cells : visible_board[p] = "M"}) = 1
    /\ \E p \in Cells : Hazard(p) /\ Hidden(visible_board, p)
    /\ \E p \in Cells : board[p] = 0 /\ Hidden(visible_board, p)
    /\ \E p \in Cells : ~Hazard(p) /\ Revealed(visible_board, p)

\* C7: a reveal of a cell that is Flagged or already Revealed changes neither
\* the visibility grid nor the outcome, and no step takes a cell from Flagged
\* to Revealed: a Flagged cell stays Flagged or goes back to Hidden.
C7_RevealSkipsNonHidden ==
    [][ /\ \A r \in 0 .. rows - 1, c \in 0 .. cols - 1 :
             (CallReveal(r, c) /\ ~Hidden(visible_board, <<r, c>>))
                 => UNCHANGED <<visible_board, game_over, win>>
        /\ \A p \in Cells :
             Flagged(visible_board, p) => visible_board'[p] \in {"F", " "} ]_vars

\* A game in progress in which a hazard is Flagged and a cascade has passed by a
\* Flagged cell: a Revealed zero-adjacency cell has a Flagged neighbour.
C7_Witness ==
    /\ pc = "play"
    /\ ~game_over
    /\ \E p \in Cells : Hazard(p) /\ Flagged(visible_board, p)
    /\ \E p, q \in Cells : /\ board[p] = 0 /\ Revealed(visible_board, p)
                          /\ Adjacent(p, q) /\ Flagged(visible_board, q)

\* C8: flag toggles its cell between Hidden and Flagged in an InProgress state
\* and is a no-op on a Revealed cell and in a terminal state; it changes no
\* other cell, nor the outcome, nor the hazard layout, and a second flag call on
\* the same cell restores the state.
C8_FlagToggles ==
    [][\A r \in 0 .. rows - 1, c \in 0 .. cols - 1 :
         CallFlag(r, c) =>
           /\ game_over' = game_over /\ win' = win /\ board' = board
           /\ \A p \in Cells \ {<<r, c>>} : visible_board'[p] = visible_board[p]
           /\ (~game_over /\ Hidden(visible_board, <<r, c>>))
                 => Flagged(visible_board', <<r, c>>)
           /\ (~game_over /\ Flagged(visible_board, <<r, c>>))
                 => Hidden(visible_board', <<r, c>>)
           /\ (game_over \/ Revealed(visible_board, <<r, c>>))
                 => visible_board' = visible_board
           /\ flag(Cur', r, c) = Cur]_vars

\* A game in progress with a Flagged hazard, a Flagged safe cell, a Hidden cell
\* and a Revealed cell.
C8_Witness ==
    /\ pc = "play"
    /\ ~game_over
    /\ \E p \in Cells : Hazard(p) /\ Flagged(visible_board, p)
    /\ \E p \in Cells : ~Hazard(p) /\ Flagged(visible_board, p)
    /\ \E p \in Cells : Hidden(visible_board, p)
    /\ \E p \in Cells : Revealed(visible_board, p)

\* C9: when construction has ended exactly num_mines cells are hazards, and no
\* later step changes the hazard layout or an adjacency count.
C9_MineCountFixed ==
    /\ [](pc = "play" => Cardinality({p \in Cells : Hazard(p)}) = num_mines)
    /\ [][pc = "play" => board' = board]_vars

\* A constructed board of three mines on which cells were revealed and flagged.
C9_Witness ==
    /\ pc = "play"
    /\ num_mines = 3
    /\ Cardinality({p \in Cells : Hazard(p)}) = 3
    /\ \E p \in Cells : Revealed(visible_board, p)
    /\ \E p \in Cells : Flagged(visible_board, p)

----
\* Construction alone, on every board of up to MaxRows x MaxCols cells.
InitBuild ==
    /\ rows \in 1 .. MaxRows
    /\ cols \in 1 .. MaxCols
    /\ num_mines \in 0 .. rows * cols - 1
    /\ Blank

NextBuild == PlaceMinesStep \/ CalculateNumbers

SpecBuild == InitBuild /\ [][NextBuild]_vars

\* C10: after construction every non-hazard cell holds the number of hazards
\* among its in-bounds 8-neighbours, a number between 0 and 8.
C10_AdjacencyCounts ==
    pc = "play" =>
        \A p \in Cells :
            ~Hazard(p) =>
                /\ board[p] = Cardinality({q \in Cells : Adjacent(p, q) /\ Hazard(q)})
                /\ board[p] \in 0 .. 8

\* A constructed board with a cell of count 8 (all eight neighbours in bounds and
\* hazards).
C10_Witness ==
    /\ pc = "play"
    /\ \E p \in Cells : board[p] = 8

----
\* Construction with any mine count, valid or not, on every board of up to
\* MaxRows x MaxCols cells.
InitAnyConfig ==
    /\ rows \in 1 .. MaxRows
    /\ cols \in 1 .. MaxCols
    /\ num_mines \in -1 .. rows * cols + 1
    /\ Blank

SpecAnyConfig == InitAnyConfig /\ [][NextBuild]_vars

\* C11: a construction with num_mines >= rows*cols or num_mines < 0 never ends
\* with a constructed engine.
C11_InvalidConfigRejected ==
    (num_mines >= rows * cols \/ num_mines < 0) => pc # "play"

----
\* Python list indexing, as reveal and flag use it on visible_board and board:
\* index i of a list of length n is accepted from -n to n - 1 (anything else
\* raises IndexError) and a negative index counts from the end of the list.
index_ok(i, n) == -n <= i /\ i < n

index(i, n) == IF i < 0 THEN i + n ELSE i

cell_at(r, c) == <<index(r, rows), index(c, cols)>>

\* Whether line 52 of reveal, called with any integers r and c, raises
\* IndexError: game_over is tested first and short-circuits the indexing.
reveal_raises(s, r, c) ==
    ~s.game_over /\ ~(index_ok(r, rows) /\ index_ok(c, cols))

\* Whether line 71 of flag, called with any integers r and c, raises IndexError.
flag_raises(s, r, c) ==
    ~s.game_over /\ ~(index_ok(r, rows) /\ index_ok(c, cols))

\* reveal called with any integers r and c.  The grids are indexed with r and
\* c as Python indexes them, _get_neighbors gets r and c as they are; the
\* recursive calls are made on the in-range cells _get_neighbors returns.
reveal_any(s, r, c) ==
    IF s.game_over \/ reveal_raises(s, r, c) THEN s
    ELSE LET p == cell_at(r, c)
         IN  IF s.visible_board[p] # " " THEN s
             ELSE IF board[p] = M
             THEN reveal_mine(s, p[1], p[2])
             ELSE LET s1 == [s EXCEPT !.visible_board[p] = str(board[p])]
                      s2 == IF board[p] = 0
                            THEN reveal_neighbors(s1, _get_neighbors(r, c), 1)
                            ELSE s1
                  IN  check_win(s2)

\* flag called with any integers r and c.
flag_any(s, r, c) ==
    IF s.game_over \/ flag_raises(s, r, c) THEN s
    ELSE flag(s, index(r, rows), index(c, cols))

\* The coordinates tried on an axis of length n: those in range and those
\* outside of it on either side, down to -n - 1 and up to n.
Coords(n) == (-n - 1) .. n

InRange(r, c) == 0 <= r /\ r < rows /\ 0 <= c /\ c < cols

CallRevealAny(r, c) ==
    /\ pc = "play"
    /\ SetGame(reveal_any(Cur, r, c))

CallFlagAny(r, c) ==
    /\ pc = "play"
    /\ SetGame(flag_any(Cur, r, c))

RevealAny == \E r \in Coords(rows), c \in Coords(cols) : CallRevealAny(r, c)

FlagAny == \E r \in Coords(rows), c \in Coords(cols) : CallFlagAny(r, c)

NextAnyCoord == PlaceMinesStep \/ CalculateNumbers \/ RevealAny \/ FlagAny

SpecAnyCoord == Init /\ [][NextAnyCoord]_vars

\* C12: reveal and flag called with a row or a column out of range raise an
\* error and leave the visibility grid and the outcome unchanged.
C12_OutOfRangeRejected ==
    [][\A r \in Coords(rows), c \in Coords(cols) :
         ~InRange(r, c) =>
           /\ CallRevealAny(r, c)
                => /\ reveal_raises(Cur, r, c)
                   /\ UNCHANGED <<visible_board, game_over, win>>
           /\ CallFlagAny(r, c)
                => /\ flag_raises(Cur, r, c)
                   /\ UNCHANGED <<visible_board, game_over, win>>]_vars

\* reveal_any and flag_any called with in-range coordinates are reveal and flag.
AnyAgreesInRange ==
    pc = "play" => \A r \in 0 .. rows - 1, c \in 0 .. cols - 1 :
        /\ reveal_any(Cur, r, c) = reveal(Cur, r, c)
        /\ flag_any(Cur, r, c) = flag(Cur, r, c)

----
\* The recursion of reveal, step by step.  g = [s, stack, log] is the game
\* state with the stack and the log of the call in progress.

\* enter_reveal marking a zero-adjacency cell only after its for loop.
enter_reveal_marking_late(g, r, c) ==
    IF reveal_returns_early(g.s, r, c) THEN g
    ELSE IF board[<<r, c>>] = M
    THEN [g EXCEPT !.s = reveal_mine(g.s, r, c), !.log = Append(@, <<r, c>>)]
    ELSE LET s1 == [g.s EXCEPT !.visible_board[<<r, c>>] = str(board[<<r, c>>])]
         IN  IF board[<<r, c>>] = 0
             THEN [s |-> g.s,
                   stack |-> Append(g.stack, [r |-> r, c |-> c, i |-> 1]),
                   log |-> Append(g.log, <<r, c>>)]
             ELSE [s |-> check_win(s1),
                   stack |-> g.stack,
                   log |-> Append(g.log, <<r, c>>)]

\* A call reveal(r, c), made by the caller or by the for loop of another
\* activation, from line 52 to the point where it returns or enters its own for
\* loop: lines 52-62, and line 67 when the cell has no for loop to run.
enter_reveal(g, r, c) ==
    IF reveal_returns_early(g.s, r, c) THEN g
    ELSE IF board[<<r, c>>] = M
    THEN [g EXCEPT !.s = reveal_mine(g.s, r, c), !.log = Append(@, <<r, c>>)]
    ELSE LET s1 == [g.s EXCEPT !.visible_board[<<r, c>>] = str(board[<<r, c>>])]
         IN  IF board[<<r, c>>] = 0
             THEN [s |-> s1,
                   stack |-> Append(g.stack, [r |-> r, c |-> c, i |-> 1]),
                   log |-> Append(g.log, <<r, c>>)]
             ELSE [s |-> check_win(s1),
                   stack |-> g.stack,
                   log |-> Append(g.log, <<r, c>>)]

\* One step of the activation on top of the stack: an iteration of its for loop
\* (lines 63-65), with the call it makes up to that call's own for loop, or,
\* when the loop is over, check_win (line 67) and the return.
step_reveal(g) ==
    LET n == Len(g.stack)
        top == g.stack[n]
        nb == _get_neighbors(top.r, top.c)
    IN  IF top.i > Len(nb)
        THEN [g EXCEPT !.s = check_win(g.s), !.stack = SubSeq(g.stack, 1, n - 1)]
        ELSE LET g1 == [g EXCEPT !.stack[n].i = top.i + 1]
             IN  IF g.s.visible_board[nb[top.i]] = " "
                 THEN enter_reveal(g1, nb[top.i][1], nb[top.i][2])
                 ELSE g1

\* The state after a step of a call that started as started; the log and the
\* call are cleared when the outermost activation has returned.
SetRecursion(g, started) ==
    /\ visible_board' = g.s.visible_board
    /\ game_over' = g.s.game_over
    /\ win' = g.s.win
    /\ stack' = g.stack
    /\ log' = IF g.stack = <<>> THEN <<>> ELSE g.log
    /\ call' = IF g.stack = <<>> THEN <<>> ELSE started
    /\ UNCHANGED <<rows, cols, num_mines, board, mines_placed, pc>>

StartReveal ==
    /\ pc = "play"
    /\ stack = <<>>
    /\ \E r \in 0 .. rows - 1, c \in 0 .. cols - 1 :
         SetRecursion(enter_reveal([s |-> Cur, stack |-> <<>>, log |-> <<>>], r, c),
                      <<[r |-> r, c |-> c, s |-> Cur]>>)

StepReveal ==
    /\ pc = "play"
    /\ stack # <<>>
    /\ SetRecursion(step_reveal([s |-> Cur, stack |-> stack, log |-> log]), call)

\* flag is called between reveal calls only: the engine has a single caller.
FlagIdle == stack = <<>> /\ Flag

NextSteps == PlaceMinesStep \/ CalculateNumbers \/ StartReveal \/ StepReveal \/ FlagIdle

SpecSteps == Init /\ [][NextSteps]_vars

\* A reveal call that has started keeps running until it returns.
FairSteps == SpecSteps /\ WF_vars(StepReveal)

\* A reveal call followed step by step ends in the state reveal gives at once.
StepsAgreeWithReveal ==
    [][ /\ (stack # <<>> /\ stack' = <<>>)
            => Cur' = reveal(call[1].s, call[1].r, call[1].c)
        /\ \A r \in 0 .. rows - 1, c \in 0 .. cols - 1 :
            ( /\ pc = "play" /\ stack = <<>> /\ stack' = <<>>
              /\ Cur' = enter_reveal([s |-> Cur, stack |-> <<>>, log |-> <<>>], r, c).s
              /\ enter_reveal([s |-> Cur, stack |-> <<>>, log |-> <<>>], r, c).stack = <<>> )
            => Cur' = reveal(Cur, r, c) ]_vars

\* C13: every reveal call returns, and while it runs it reveals each cell at
\* most once: the cells it has revealed are distinct, so at most rows*cols.
C13_RevealTerminates ==
    /\ [](/\ \A i, j \in 1 .. Len(log) : log[i] = log[j] => i = j
          /\ Len(log) <= rows * cols)
    /\ (stack # <<>>) ~> (stack = <<>>)

\* The outermost activation of a cascade that went at least two levels deep is
\* about to return, with five cells or more revealed by the call.
C13_Witness ==
    /\ pc = "play"
    /\ Len(stack) = 1
    /\ stack[1].i > Len(_get_neighbors(stack[1].r, stack[1].c))
    /\ Len(log) >= 5
    /\ \E k \in 1 .. Len(log) : board[log[k]] = 0 /\ log[k] # <<stack[1].r, stack[1].c>>

----
\* The 3x3 board with a single mine, whichever cell the placement picks.
InitThree ==
    /\ rows = 3
    /\ cols = 3
    /\ num_mines = 1
    /\ Blank

SpecThree == InitThree /\ [][Next]_vars

AllHidden == \A p \in Cells : Hidden(visible_board, p)

\* C14: with the mine at (0,0) and every cell Hidden, reveal(2,2) reveals the
\* eight safe cells, leaves (0,0) Hidden and wins the game.
C14_CornerMineCascadeWins ==
    [][( /\ pc = "play" /\ Hazard(<<0, 0>>) /\ AllHidden /\ ~game_over
         /\ CallReveal(2, 2) )
       => /\ \A p \in Cells \ {<<0, 0>>} : Revealed(visible_board', p)
          /\ Hidden(visible_board', <<0, 0>>)
          /\ Outcome(game_over', win') = "Won"]_vars

\* The board of the scenario after the call: won, the mine at (0,0) Hidden, the
\* cell (2,2) showing 0.
C14_Witness ==
    /\ pc = "play"
    /\ Hazard(<<0, 0>>) /\ Hidden(visible_board, <<0, 0>>)
    /\ visible_board[<<2, 2>>] = "0"
    /\ \A p \in Cells \ {<<0, 0>>} : Revealed(visible_board, p)
    /\ win

\* C15: with the mine at (1,1) every other cell has adjacency count 1; from the
\* initial state a reveal of a corner reveals that corner only and leaves the
\* game in progress, and reveal(1,1) loses the game.
C15_CentreMine ==
    [][( /\ pc = "play" /\ Hazard(<<1, 1>>) /\ AllHidden /\ ~game_over )
       => /\ \A p \in Cells \ {<<1, 1>>} : board[p] = 1
          /\ \A r \in {0, 2}, c \in {0, 2} :
               CallReveal(r, c)
                 => /\ visible_board' = [visible_board EXCEPT ![<<r, c>>] = "1"]
                    /\ Outcome(game_over', win') = "InProgress"
          /\ CallReveal(1, 1) => Outcome(game_over', win') = "Lost"]_vars

\* The board of the scenario after the reveal of one corner: that corner shows
\* 1, the eight other cells are Hidden and the game is in progress.
C15_Witness ==
    /\ pc = "play"
    /\ Hazard(<<1, 1>>)
    /\ ~game_over
    /\ \E q \in {0, 2} \X {0, 2} :
         /\ visible_board[q] = "1"
         /\ \A p \in Cells \ {q} : Hidden(visible_board, p)

----
\* C16: a reveal call on a non-hazard cell never loses the game, and the only
\* hazard a reveal call can reveal is the cell it is called on.
C16_CascadeAvoidsHazards ==
    [][\A r \in 0 .. rows - 1, c \in 0 .. cols - 1 :
         CallReveal(r, c) =>
           /\ \A p \in Cells :
                (Hazard(p) /\ ~Revealed(visible_board, p) /\ Revealed(visible_board', p))
                    => p = <<r, c>>
           /\ (~Hazard(<<r, c>>) /\ Outcome(game_over, win) # "Lost")
                => Outcome(game_over', win') # "Lost"]_vars

\* A game in progress in which a cascade has run next to hazards: two
\* Revealed zero-adjacency cells, and two hazards, both still Hidden.
C16_Witness ==
    /\ pc = "play"
    /\ ~game_over
    /\ Cardinality({p \in Cells : board[p] = 0 /\ Revealed(visible_board, p)}) >= 2
    /\ Cardinality({p \in Cells : Hazard(p) /\ Hidden(visible_board, p)}) >= 2

\* The value of board a cell of visible_board shows.
ShownValue(v) ==
    CASE v = "M" -> M
      [] v = "0" -> 0 [] v = "1" -> 1 [] v = "2" -> 2 [] v = "3" -> 3
      [] v = "4" -> 4 [] v = "5" -> 5 [] v = "6" -> 6 [] v = "7" -> 7
      [] v = "8" -> 8

\* C17: every cell of the visibility grid is Hidden, Flagged or Revealed, and a
\* Revealed cell shows the value the hazard layout holds for it: the mine marker
\* for a hazard, the adjacency count for a safe cell.
C17_RevealedShowsLayout ==
    \A p \in Cells :
        /\ visible_board[p] \in {" ", "F", "M", "0", "1", "2", "3", "4", "5", "6", "7", "8"}
        /\ Revealed(visible_board, p) => ShownValue(visible_board[p]) = board[p]

\* A lost game showing the mine marker on a hazard and two different counts on
\* safe cells, with a Flagged and a Hidden cell left.
C17_Witness ==
    /\ pc = "play"
    /\ \E p \in Cells : Hazard(p) /\ visible_board[p] = "M"
    /\ \E p, q \in Cells : /\ ~Hazard(p) /\ ~Hazard(q)
                          /\ Revealed(visible_board, p) /\ Revealed(visible_board, q)
                          /\ visible_board[p] # visible_board[q]
    /\ \E p \in Cells : Flagged(visible_board, p)
    /\ \E p \in Cells : Hidden(visible_board, p)

\* C18: a Revealed cell stays Revealed and keeps the value it shows, whatever
\* reveal and flag calls follow.
C18_RevealedStays ==
    [][\A p \in Cells :
         Revealed(visible_board, p) => visible_board'[p] = visible_board[p]]_vars

\* A game in progress with Revealed cells of two different values next to a
\* Flagged and a Hidden cell, on which reveal and flag can still act.
C18_Witness ==
    /\ pc = "play"
    /\ ~game_over
    /\ \E p, q \in Cells : /\ Revealed(visible_board, p) /\ Revealed(visible_board, q)
                          /\ visible_board[p] # visible_board[q]
    /\ \E p \in Cells : Flagged(visible_board, p)
    /\ \E p \in Cells : Hidden(visible_board, p)

====
